---------------------------- MODULE Spec2Model ----------------------------
(***************************************************************************)
(* Model of the three simulation scripts of the repository:                *)
(*   Cell_Range_Extension.py            the CRE sweep (SpecCRE)            *)
(*   Base_Station_Dealtivation.py       the energy-efficiency scenarios    *)
(*   Massive_MIMO.py                    the MVDR beamformer and its prompt *)
(*                                                                         *)
(* Numbers.  The scripts compute in binary64.  The model computes in fixed *)
(* point: powers and gains in centi-dB, distances in decimetres, ratios in *)
(* thousandths.  log10 is a ten-steps-per-decade table with linear         *)
(* interpolation (CentiDb), monotone and within 0.04 dB of the true value. *)
(***************************************************************************)
EXTENDS Integers, Sequences, FiniteSets, TLC

VARIABLES
    \* ---- Cell_Range_Extension.py
    cre_pc,            \* position in the script
    user_positions,    \* line 33, decimetres
    cre_i,             \* index of the current CRE in CRE_values (line 64)
    user_i,            \* index of the user the inner loops are at
    assignment,        \* line 68
    n_micro, n_macro,  \* lines 82-83
    bw_micro_user, bw_macro_user,   \* lines 85-86, rationals in Hz
    allocated_bw,      \* line 97/101, one per user of this iteration
    throughputs,       \* line 66, bit/s
    avg_throughputs,   \* line 61
    printed,           \* what line 109 has printed
    assignment_log,    \* history: the assignment of every finished iteration
    \* ---- Base_Station_Dealtivation.py
    ee_pc,             \* position in main
    snr1_db, snr2_db,  \* lines 63-64, centi-dB
    rates,             \* line 65, thousandths of Mbit/s
    res_a, res_b,      \* lines 70-71
    \* ---- Massive_MIMO.py, plot_mvdr_beampattern
    mv_pc,             \* position in the function
    L, d_ratio, soi_angle_deg, snoi_angles_deg, snr_db, inr_db,   \* its parameters
    soi_power, snoi_power,      \* lines 28-29
    R_in,              \* lines 35-39, 46
    R_in_inv,          \* lines 43, 47
    weights,           \* line 51
    scan_i,            \* index of the scan loop of line 57
    beampattern_db,    \* line 61, centi-dB
    beampattern_db_normalized,  \* line 64
    inv_log,           \* history: the outcome of every np.linalg.inv call
    reg_count,         \* history: how often line 46 ran
    \* ---- Massive_MIMO.py, __main__
    main_pc,           \* the prompt the script is at
    typed,             \* what input() has returned so far
    L_elements, d_lambda_ratio, soi_direction, snoi_list, snr_db_val, inr_db_val,
    console,           \* what print has written
    call_args          \* the arguments of the call of line 139

cre_vars == <<cre_pc, user_positions, cre_i, user_i, assignment, n_micro, n_macro,
              bw_micro_user, bw_macro_user, allocated_bw, throughputs,
              avg_throughputs, printed, assignment_log>>

ee_vars == <<ee_pc, snr1_db, snr2_db, rates, res_a, res_b>>

mv_vars == <<mv_pc, L, d_ratio, soi_angle_deg, snoi_angles_deg, snr_db, inr_db,
             soi_power, snoi_power, R_in, R_in_inv, weights, scan_i, beampattern_db,
             beampattern_db_normalized, inv_log, reg_count>>

main_vars == <<main_pc, typed, L_elements, d_lambda_ratio, soi_direction, snoi_list,
               snr_db_val, inr_db_val, console, call_args>>

vars == <<cre_vars, ee_vars, mv_vars, main_vars>>

(***************************************************************************)
(* Fixed-point arithmetic                                                  *)
(***************************************************************************)
Abs(x) == IF x < 0 THEN -x ELSE x

Min2(a, b) == IF a <= b THEN a ELSE b

RECURSIVE Pow10(_)
Pow10(k) == IF k = 0 THEN 1 ELSE 10 * Pow10(k - 1)

RECURSIVE Gcd(_, _)
Gcd(a, b) == IF b = 0 THEN Abs(a) ELSE Gcd(b, a % b)

\* np.sqrt on a non-negative integer, rounded down
RECURSIVE SqrtSearch(_, _, _)
SqrtSearch(n, lo, hi) ==
    IF lo = hi THEN lo
    ELSE LET mid == (lo + hi + 1) \div 2
         IN  IF mid * mid <= n THEN SqrtSearch(n, mid, hi)
             ELSE SqrtSearch(n, lo, mid - 1)

ISqrt(n) == SqrtSearch(n, 0, 46340)

\* 1000 * 10^(i/10) for i = 0..10
DecadeTable == <<1000, 1259, 1585, 1995, 2512, 3162, 3981, 5012, 6310, 7943, 10000>>

\* the largest k with 10^k <= n
RECURSIVE Decade(_)
Decade(n) == IF n < 10 THEN 0 ELSE 1 + Decade(n \div 10)

\* 10*log10(n) in centi-dB, for an integer n >= 1
CentiDb(n) ==
    LET k  == Decade(n)
        m4 == IF k >= 3 THEN n \div Pow10(k - 3) ELSE n * Pow10(3 - k)
        i  == CHOOSE j \in 1..10 : DecadeTable[j] <= m4 /\ m4 < DecadeTable[j + 1]
    IN  1000 * k + 100 * (i - 1)
          + (100 * (m4 - DecadeTable[i])) \div (DecadeTable[i + 1] - DecadeTable[i])

\* 10^(c/1000) rounded down, for c >= 0 centi-dB: the inverse of CentiDb
LinFromCentiDb(c) ==
    LET k    == c \div 1000
        i    == (c % 1000) \div 100 + 1
        f    == c % 100
        mant == DecadeTable[i] + ((DecadeTable[i + 1] - DecadeTable[i]) * f) \div 100
    IN  IF k >= 3 THEN mant * Pow10(k - 3) ELSE mant \div Pow10(3 - k)

\* math.log2 of x/1000, in thousandths: log2 = 10*log10 / 3.0103
Log2Milli(x) == ((CentiDb(x) - 3000) * 100000) \div 30103

(***************************************************************************)
(* Rationals: Python's true division of two numbers                        *)
(***************************************************************************)
Rat(n, d) == LET g == Gcd(n, d) IN [num |-> n \div g, den |-> d \div g]

RatZero == [num |-> 0, den |-> 1]

RatAdd(a, b) == Rat(a.num * b.den + b.num * a.den, a.den * b.den)

\* cancels across before it multiplies
RatMul(a, b) ==
    LET g1 == Gcd(a.num, b.den)
        g2 == Gcd(b.num, a.den)
    IN  IF g1 = 0 \/ g2 = 0 THEN [num |-> 0, den |-> 1]
        ELSE Rat((a.num \div g1) * (b.num \div g2), (a.den \div g2) * (b.den \div g1))

RatDiv(a, b) == RatMul(a, [num |-> b.den, den |-> b.num])

RatLeq(a, b) == a.num * b.den <= b.num * a.den

RECURSIVE RatSum(_)
RatSum(s) == IF s = <<>> THEN RatZero ELSE RatAdd(Head(s), RatSum(Tail(s)))

RECURSIVE SumSeq(_)
SumSeq(s) == IF s = <<>> THEN 0 ELSE Head(s) + SumSeq(Tail(s))

\* list.count
Count(s, v) == Cardinality({i \in 1..Len(s) : s[i] = v})

(***************************************************************************)
(* Cell_Range_Extension.py                                                 *)
(***************************************************************************)
D == 10000                  \* decimetres
n_users == 3
f_MHz == 3500
P_tx_micro == 30
G_tx_micro == 12
P_tx_macro == 46
G_tx_macro == 18
G_ue == 2
h_micro == 50               \* decimetres
H_macro == 400
u == 20
B_total == 5000000
B_user_micro == B_total \div 4
B_user_macro == B_total \div 10
CRE_values == <<0, 3, 6, 12>>

\* positions np.random.uniform may draw, in decimetres
PositionSet == {100, 736, 1004, 2405, 6000}

\* fspl, in centi-dB, of a distance in decimetres
fspl(d) == 2 * (CentiDb(d) - 1000) + 2 * (CentiDb(f_MHz) + 6000) - 14755

calc_received_power(x, bs_position, bs_height, P_tx, G_tx) ==
    LET horizontal_dist == Abs(x - bs_position)
        vertical_diff   == Abs(bs_height - u)
        d == ISqrt(horizontal_dist * horizontal_dist + vertical_diff * vertical_diff)
        path_loss == fspl(d)
    IN  (P_tx + G_tx + G_ue) * 100 - path_loss

P_rx_micro(x) == calc_received_power(x, 0, h_micro, P_tx_micro, G_tx_micro)

P_rx_macro(x) == calc_received_power(x, D, H_macro, P_tx_macro, G_tx_macro)

\* mutant of Station: the strict comparison
StationStrict(x, CRE) ==
    IF P_rx_micro(x) + CRE * 100 > P_rx_macro(x) THEN "micro" ELSE "macro"

\* mutant of Station: the bias taken off the micro reading
StationBiasSubtracted(x, CRE) ==
    IF P_rx_micro(x) - CRE * 100 >= P_rx_macro(x) THEN "micro" ELSE "macro"

\* line 76: the station a user at x is assigned to under bias CRE (dB)
Station(x, CRE) ==
    IF P_rx_micro(x) + CRE * 100 >= P_rx_macro(x) THEN "micro" ELSE "macro"

\* lines 49-55, bit/s; powers in centi-dBm, bandwidth a rational in Hz;
\* S_mW and I_mW in units of 1e-7 mW, SINR in thousandths
calc_throughput(P_rx_serving_dBm, P_rx_interferer_dBm, bandwidth) ==
    LET S_mW == LinFromCentiDb(P_rx_serving_dBm + 7000)
        I_mW == LinFromCentiDb(P_rx_interferer_dBm + 7000)
        SINR == IF I_mW > 0 THEN (S_mW * 1000) \div I_mW ELSE 1000000000
    IN  ((bandwidth.num \div 1000) * Log2Milli(1000 + SINR)) \div bandwidth.den

\* a / b; DivError stands for ZeroDivisionError
DivError == [num |-> 0, den |-> 0]

TrueDiv(a, b) == IF b = 0 THEN DivError ELSE Rat(a, b)

\* mutant of BwPerUser: the guard left out
BwPerUserUnguarded(spectrum, n) == TrueDiv(spectrum, n)

\* mutant of BwPerUser: the spectrum split over all users
BwPerUserAllUsers(spectrum, n) == IF n > 0 THEN TrueDiv(spectrum, n_users) ELSE RatZero

\* lines 85-86
BwPerUser(spectrum, n) == IF n > 0 THEN TrueDiv(spectrum, n) ELSE RatZero

CREStart ==
    /\ cre_pc = "assign"
    /\ user_positions \in [1..n_users -> PositionSet]
    /\ cre_i = 1
    /\ user_i = 1
    /\ assignment = <<>>
    /\ n_micro = 0
    /\ n_macro = 0
    /\ bw_micro_user = RatZero
    /\ bw_macro_user = RatZero
    /\ allocated_bw = <<>>
    /\ throughputs = [i \in 1..n_users |-> 0]
    /\ avg_throughputs = <<>>
    /\ printed = <<>>
    /\ assignment_log = <<>>

\* lines 69-79, one user
AssignUser ==
    /\ UNCHANGED <<ee_vars, mv_vars, main_vars>>
    /\ cre_pc = "assign"
    /\ user_i <= n_users
    /\ assignment' = Append(assignment, Station(user_positions[user_i], CRE_values[cre_i]))
    /\ user_i' = user_i + 1
    /\ UNCHANGED <<cre_pc, user_positions, cre_i, n_micro, n_macro, bw_micro_user,
                   bw_macro_user, allocated_bw, throughputs, avg_throughputs,
                   printed, assignment_log>>

\* lines 82-86
CountAndSplit ==
    /\ UNCHANGED <<ee_vars, mv_vars, main_vars>>
    /\ cre_pc = "assign"
    /\ user_i > n_users
    /\ LET nmi == Count(assignment, "micro")
           nma == Count(assignment, "macro")
           bmi == BwPerUser(B_user_micro, nmi)
           bma == BwPerUser(B_user_macro, nma)
       IN  /\ n_micro' = nmi
           /\ n_macro' = nma
           /\ bw_micro_user' = bmi
           /\ bw_macro_user' = bma
           /\ cre_pc' = IF bmi = DivError \/ bma = DivError
                        THEN "ZeroDivisionError" ELSE "throughput"
    /\ user_i' = 1
    /\ assignment_log' = Append(assignment_log, assignment)
    /\ UNCHANGED <<user_positions, cre_i, assignment, allocated_bw, throughputs,
                   avg_throughputs, printed>>

\* lines 89-105, one user
ThroughputUser ==
    /\ UNCHANGED <<ee_vars, mv_vars, main_vars>>
    /\ cre_pc = "throughput"
    /\ user_i <= n_users
    /\ LET x == user_positions[user_i]
           micro == assignment[user_i] = "micro"
           serving_power     == IF micro THEN P_rx_micro(x) ELSE P_rx_macro(x)
           interfering_power == IF micro THEN P_rx_macro(x) ELSE P_rx_micro(x)
           bw                == IF micro THEN bw_micro_user ELSE bw_macro_user
       IN  /\ allocated_bw' = Append(allocated_bw, bw)
           /\ throughputs' = [throughputs EXCEPT ![user_i] =
                                 calc_throughput(serving_power, interfering_power, bw)]
    /\ user_i' = user_i + 1
    /\ UNCHANGED <<cre_pc, user_positions, cre_i, assignment, n_micro, n_macro,
                   bw_micro_user, bw_macro_user, avg_throughputs, printed,
                   assignment_log>>

\* lines 107-109, then the next CRE value (lines 64-68) or the plot (line 112)
Report ==
    /\ UNCHANGED <<ee_vars, mv_vars, main_vars>>
    /\ cre_pc = "throughput"
    /\ user_i > n_users
    /\ LET avg_throughput == SumSeq(throughputs) \div n_users
       IN  /\ avg_throughputs' = Append(avg_throughputs, avg_throughput)
           /\ printed' = Append(printed, [CRE |-> CRE_values[cre_i], mikro |-> n_micro,
                                          makro |-> n_macro, avg |-> avg_throughput])
    /\ IF cre_i < Len(CRE_values)
       THEN /\ cre_i' = cre_i + 1
            /\ throughputs' = [i \in 1..n_users |-> 0]
            /\ assignment' = <<>>
            /\ allocated_bw' = <<>>
            /\ cre_pc' = "assign"
       ELSE /\ cre_pc' = "plot"
            /\ UNCHANGED <<cre_i, throughputs, assignment, allocated_bw>>
    /\ user_i' = 1
    /\ UNCHANGED <<user_positions, n_micro, n_macro, bw_micro_user, bw_macro_user,
                   assignment_log>>

\* the script not run
CREIdle ==
    /\ cre_pc = "idle"
    /\ user_positions = <<>>
    /\ cre_i = 0
    /\ user_i = 0
    /\ assignment = <<>>
    /\ n_micro = 0
    /\ n_macro = 0
    /\ bw_micro_user = RatZero
    /\ bw_macro_user = RatZero
    /\ allocated_bw = <<>>
    /\ throughputs = <<>>
    /\ avg_throughputs = <<>>
    /\ printed = <<>>
    /\ assignment_log = <<>>

(***************************************************************************)
(* Base_Station_Dealtivation.py                                            *)
(***************************************************************************)
num_users == 3

\* the ends of the ranges random.uniform draws from (lines 63-65)
Snr1Set == {100, 500}
Snr2Set == {500, 1000}
RateSet == {1000, 5000}

\* lines 7-10: MHz in thousandths (kHz); rate in thousandths of Mbit/s
compute_bandwidth_for_rate(rate, snr_dB) ==
    LET snr_lin == LinFromCentiDb(snr_dB + 3000)
    IN  (rate * 1000) \div Log2Milli(1000 + snr_lin)

\* [f(r, s) for r, s in zip(rs, ss)], summed
RECURSIVE SumBandwidth(_, _)
SumBandwidth(rs, ss) ==
    IF rs = <<>> \/ ss = <<>> THEN 0
    ELSE compute_bandwidth_for_rate(Head(rs), Head(ss)) + SumBandwidth(Tail(rs), Tail(ss))

B == 10000            \* 10.0 MHz, in kHz
P1 == 460
Delta == [num |-> 42, den |-> 10]
Psleep == 100
InitialLoad == 2500   \* 2.5 MHz, in kHz
InitialRate == 10000  \* 10.0 Mbit/s, in thousandths

RatInt(n) == [num |-> n, den |-> 1]

\* lines 12-35
scenario_two_stations(s1, s2, rs) ==
    LET total_b2 == SumBandwidth(rs, s2)
        rho1 == Rat(InitialLoad, B)
        rho2 == Rat(total_b2, B)
        P_sta1 == RatAdd(RatInt(P1), RatMul(Delta, rho1))
        P_sta2 == RatAdd(RatInt(P1), RatMul(Delta, rho2))
        total_power == RatAdd(P_sta1, P_sta2)
        total_rate == Rat(InitialRate + SumSeq(rs), 1000)
        EE == RatDiv(total_rate, total_power)
    IN  [rho1 |-> rho1, rho2 |-> rho2, Power1 |-> P_sta1, Power2 |-> P_sta2,
         TotalPower |-> total_power, TotalRate |-> total_rate, EE |-> EE]

\* mutant of scenario_one_station: station 2 left at its idle active power
scenario_one_station_active(s1, s2, rs) ==
    LET total_b1 == InitialLoad + SumBandwidth(rs, s1)
        rho1 == Rat(total_b1, B)
        P_sta1 == RatAdd(RatInt(P1), RatMul(Delta, rho1))
        P_sta2 == RatInt(P1)
        total_power == RatAdd(P_sta1, P_sta2)
        total_rate == Rat(InitialRate + SumSeq(rs), 1000)
        EE == RatDiv(total_rate, total_power)
    IN  [rho1 |-> rho1, Power1 |-> P_sta1, Power2 |-> P_sta2,
         TotalPower |-> total_power, TotalRate |-> total_rate, EE |-> EE]

\* lines 37-57
scenario_one_station(s1, s2, rs) ==
    LET total_b1 == InitialLoad + SumBandwidth(rs, s1)
        rho1 == Rat(total_b1, B)
        P_sta1 == RatAdd(RatInt(P1), RatMul(Delta, rho1))
        P_sta2 == RatInt(Psleep)
        total_power == RatAdd(P_sta1, P_sta2)
        total_rate == Rat(InitialRate + SumSeq(rs), 1000)
        EE == RatDiv(total_rate, total_power)
    IN  [rho1 |-> rho1, Power1 |-> P_sta1, Power2 |-> P_sta2,
         TotalPower |-> total_power, TotalRate |-> total_rate, EE |-> EE]

NoResult == [none |-> TRUE]

\* lines 60-68
EEStart ==
    /\ ee_pc = "two_stations"
    /\ snr1_db \in [1..num_users -> Snr1Set]
    /\ snr2_db \in [1..num_users -> Snr2Set]
    /\ rates \in [1..num_users -> RateSet]
    /\ res_a = NoResult
    /\ res_b = NoResult

EEIdle ==
    /\ ee_pc = "idle"
    /\ snr1_db = <<>>
    /\ snr2_db = <<>>
    /\ rates = <<>>
    /\ res_a = NoResult
    /\ res_b = NoResult

\* line 70
CallTwoStations ==
    /\ UNCHANGED <<cre_vars, mv_vars, main_vars>>
    /\ ee_pc = "two_stations"
    /\ res_a' = scenario_two_stations(snr1_db, snr2_db, rates)
    /\ ee_pc' = "one_station"
    /\ UNCHANGED <<snr1_db, snr2_db, rates, res_b>>

\* line 71
CallOneStation ==
    /\ UNCHANGED <<cre_vars, mv_vars, main_vars>>
    /\ ee_pc = "one_station"
    /\ res_b' = scenario_one_station(snr1_db, snr2_db, rates)
    /\ ee_pc' = "print"
    /\ UNCHANGED <<snr1_db, snr2_db, rates, res_a>>

\* lines 72-80
PrintResults ==
    /\ UNCHANGED <<cre_vars, mv_vars, main_vars>>
    /\ ee_pc = "print"
    /\ ee_pc' = "done"
    /\ UNCHANGED <<snr1_db, snr2_db, rates, res_a, res_b>>

(***************************************************************************)
(* Massive_MIMO.py: numbers                                                *)
(*                                                                         *)
(* A real is m * 10^e with m not divisible by 10 (zero is 0 * 10^0), so    *)
(* that 10^20 and 10^-6 are both held.  Products are exact.  A sum is the  *)
(* binary64 sum: the smaller term is lost when it is below half a unit in  *)
(* the last place of the larger one, and is exact otherwise.               *)
(***************************************************************************)
RECURSIVE Norm(_, _)
Norm(m, e) ==
    IF m = 0 THEN [m |-> 0, e |-> 0]
    ELSE IF m % 10 = 0 THEN Norm(m \div 10, e + 1)
    ELSE [m |-> m, e |-> e]

RZero == [m |-> 0, e |-> 0]
ROne == [m |-> 1, e |-> 0]

RNeg(x) == [m |-> -x.m, e |-> x.e]

RMul(x, y) == Norm(x.m * y.m, x.e + y.e)

\* floor(log10 |x|), x # 0
Magnitude(x) == x.e + Decade(Abs(x.m))

\* 2^-54 > 10^-17: a term 10^17 times smaller than the other changes nothing
AbsorbDigits == 17

FAdd(x, y) ==
    IF x.m = 0 THEN y
    ELSE IF y.m = 0 THEN x
    ELSE IF Magnitude(x) - Magnitude(y) > AbsorbDigits THEN x
    ELSE IF Magnitude(y) - Magnitude(x) > AbsorbDigits THEN y
    ELSE LET e0 == Min2(x.e, y.e)
         IN  Norm(x.m * Pow10(x.e - e0) + y.m * Pow10(y.e - e0), e0)

\* complex numbers
Cx(re, im) == [re |-> re, im |-> im]
CZero == Cx(RZero, RZero)
COne == Cx(ROne, RZero)
CAdd(a, b) == Cx(FAdd(a.re, b.re), FAdd(a.im, b.im))
CNeg(a) == Cx(RNeg(a.re), RNeg(a.im))
CMul(a, b) == Cx(FAdd(RMul(a.re, b.re), RNeg(RMul(a.im, b.im))),
                 FAdd(RMul(a.re, b.im), RMul(a.im, b.re)))
CConj(a) == Cx(a.re, RNeg(a.im))
CScale(r, a) == Cx(RMul(r, a.re), RMul(r, a.im))
CAbs2(a) == FAdd(RMul(a.re, a.re), RMul(a.im, a.im))

RECURSIVE CSum(_)
CSum(s) == IF s = <<>> THEN CZero ELSE CAdd(Head(s), CSum(Tail(s)))

\* vectors and matrices are sequences
Dot(a, b) == CSum([i \in 1..Len(a) |-> CMul(CConj(a[i]), b[i])])

MatVec(M, v) == [i \in 1..Len(M) |-> CSum([j \in 1..Len(v) |-> CMul(M[i][j], v[j])])]

MatAdd(M, N) == [i \in 1..Len(M) |-> [j \in 1..Len(M) |-> CAdd(M[i][j], N[i][j])]]

\* a @ a.conj().T
Outer(a) == [i \in 1..Len(a) |-> [j \in 1..Len(a) |-> CMul(a[i], CConj(a[j]))]]

\* r * np.eye(n)
ScaledEye(r, n) == [i \in 1..n |-> [j \in 1..n |-> IF i = j THEN Cx(r, RZero) ELSE CZero]]

Zeros(n) == [i \in 1..n |-> [j \in 1..n |-> CZero]]

DropAt(s, k) == [i \in 1..(Len(s) - 1) |-> IF i < k THEN s[i] ELSE s[i + 1]]

Minor(M, r, c) == [i \in 1..(Len(M) - 1) |-> DropAt(DropAt(M, r)[i], c)]

RECURSIVE Det(_)
Det(M) ==
    IF Len(M) = 0 THEN COne
    ELSE CSum([c \in 1..Len(M) |->
                  LET t == CMul(M[1][c], Det(Minor(M, 1, c)))
                  IN  IF c % 2 = 1 THEN t ELSE CNeg(t)])

Adjugate(M) ==
    [i \in 1..Len(M) |-> [j \in 1..Len(M) |->
        LET t == Det(Minor(M, j, i))
        IN  IF (i + j) % 2 = 0 THEN t ELSE CNeg(t)]]

(***************************************************************************)
(* Massive_MIMO.py: plot_mvdr_beampattern                                  *)
(*                                                                         *)
(* Parameters are in thousandths (degrees, dB, d/lambda).  The angles are  *)
(* those whose sine is a multiple of 1/2: with d/lambda a multiple of 1/2  *)
(* every steering-vector entry is then a power of j, held exactly.         *)
(***************************************************************************)
MaxL == 3
MaxSnoi == 1

TwiceSin == [a \in {-90000, -30000, 0, 30000, 90000} |->
                CASE a = -90000 -> -2 [] a = -30000 -> -1 [] a = 0 -> 0
                  [] a = 30000 -> 1 [] a = 90000 -> 2]

\* j^q
Unit(q) ==
    CASE q % 4 = 0 -> Cx(ROne, RZero)
      [] q % 4 = 1 -> Cx(RZero, ROne)
      [] q % 4 = 2 -> Cx(RNeg(ROne), RZero)
      [] q % 4 = 3 -> Cx(RZero, RNeg(ROne))

\* lines 16-19: exp(j 2 pi d m sin(angle)) = j^(4 d m sin(angle))
steering_vector(angle_deg, num_elements, element_spacing_ratio) ==
    [k \in 1..num_elements |->
        Unit((element_spacing_ratio * (k - 1) * TwiceSin[angle_deg]) \div 500)]

\* 10 ** (db / 10.0), db in thousandths of a dB
PowerOfDb(db) ==
    LET c    == db \div 10
        k    == c \div 1000
        i    == (c % 1000) \div 100 + 1
        f    == c % 100
        mant == DecadeTable[i] + ((DecadeTable[i + 1] - DecadeTable[i]) * f) \div 100
    IN  Norm(mant, k - 3)

noise_power == ROne

\* line 46: the regularization term
Epsilon == [m |-> 1, e |-> -6]

\* lines 35-39
RECURSIVE AddInterferers(_, _, _, _, _)
AddInterferers(R, angles, p, n, d) ==
    IF angles = <<>> THEN R
    ELSE LET a_int == steering_vector(Head(angles), n, d)
         IN  AddInterferers(
                 MatAdd(R, [i \in 1..n |-> [j \in 1..n |-> CScale(p, Outer(a_int)[i][j])]]),
                 Tail(angles), p, n, d)

\* lines 35-39: R_in as built from the parameters
Covariance(angles, p, n, d) ==
    MatAdd(AddInterferers(Zeros(n), angles, p, n, d), ScaledEye(noise_power, n))

\* np.linalg.inv raises LinAlgError on a singular matrix
Singular(M) == Det(M) = CZero

\* np.linalg.inv(M): the adjugate over the determinant
Inverse(M) == [adj |-> Adjugate(M), det |-> Det(M)]

\* line 46
Regularize(M) == MatAdd(M, ScaledEye(Epsilon, Len(M)))

\* lines 49-51: (R_in_inv @ a) / (a^H @ R_in_inv @ a); the determinant cancels
MvdrWeights(Rinv, a_soi) ==
    LET numerator == MatVec(Rinv.adj, a_soi)
    IN  [vec |-> numerator, den |-> Dot(a_soi, numerator)]

\* 10*log10(power + 1e-12) in centi-dB, power = num/den; 1e-12 is below the
\* resolution unless power is 0
DbOfPower(num, den) ==
    IF num.m = 0 THEN -12000
    ELSE (CentiDb(num.m) + 1000 * num.e) - (CentiDb(den.m) + 1000 * den.e)

\* the angles of np.linspace(-90, 90, 361) whose steering vector is exact
phi_scan_deg == <<-90000, -30000, 0, 30000, 90000>>

\* lines 58-61
ScanDb(w, angle_deg, n, d) ==
    LET a_scan == steering_vector(angle_deg, n, d)
        response_num == Dot(w.vec, a_scan)
    IN  DbOfPower(CAbs2(response_num), CAbs2(w.den))

RECURSIVE MaxSeq(_)
MaxSeq(s) ==
    IF Len(s) = 1 THEN s[1]
    ELSE LET t == MaxSeq(Tail(s)) IN IF Head(s) >= t THEN Head(s) ELSE t

\* mutant of NormalizeDb: normalized to the value in the first scanned direction
NormalizeDbFirst(db) == [i \in 1..Len(db) |-> db[i] - db[1]]

\* line 64
NormalizeDb(db) == [i \in 1..Len(db) |-> db[i] - MaxSeq(db)]

RECURSIVE SeqsUpTo(_, _)
SeqsUpTo(S, n) ==
    IF n = 0 THEN {<<>>}
    ELSE LET shorter == SeqsUpTo(S, n - 1)
         IN  shorter \cup {Append(q, x) : q \in shorter, x \in S}

Unset == [unset |-> TRUE]

MVStart ==
    /\ mv_pc = "build"
    /\ L \in 1..MaxL
    /\ d_ratio = 500
    /\ soi_angle_deg \in {0, 30000}
    /\ snoi_angles_deg \in SeqsUpTo({-30000, 0, 30000, 90000}, MaxSnoi)
    /\ snr_db = 10000
    /\ inr_db \in {0, 10000, 200000}
    /\ soi_power = Unset
    /\ snoi_power = Unset
    /\ R_in = Unset
    /\ R_in_inv = Unset
    /\ weights = Unset
    /\ scan_i = 0
    /\ beampattern_db = <<>>
    /\ beampattern_db_normalized = Unset
    /\ inv_log = <<>>
    /\ reg_count = 0

MVIdle ==
    /\ mv_pc = "idle"
    /\ L = 0
    /\ d_ratio = 0
    /\ soi_angle_deg = 0
    /\ snoi_angles_deg = <<>>
    /\ snr_db = 0
    /\ inr_db = 0
    /\ soi_power = Unset
    /\ snoi_power = Unset
    /\ R_in = Unset
    /\ R_in_inv = Unset
    /\ weights = Unset
    /\ scan_i = 0
    /\ beampattern_db = <<>>
    /\ beampattern_db_normalized = Unset
    /\ inv_log = <<>>
    /\ reg_count = 0

mv_params == <<L, d_ratio, soi_angle_deg, snoi_angles_deg, snr_db, inr_db>>

\* lines 27-39
BuildCovariance ==
    /\ UNCHANGED <<cre_vars, ee_vars, main_vars>>
    /\ mv_pc = "build"
    /\ soi_power' = RMul(noise_power, PowerOfDb(snr_db))
    /\ snoi_power' = RMul(noise_power, PowerOfDb(inr_db))
    /\ R_in' = Covariance(snoi_angles_deg, snoi_power', L, d_ratio)
    /\ mv_pc' = "try"
    /\ UNCHANGED <<mv_params, R_in_inv, weights, scan_i, beampattern_db,
                   beampattern_db_normalized, inv_log, reg_count>>

\* lines 42-44
TryInverse ==
    /\ UNCHANGED <<cre_vars, ee_vars, main_vars>>
    /\ mv_pc = "try"
    /\ IF Singular(R_in)
       THEN /\ inv_log' = Append(inv_log, "LinAlgError")
            /\ mv_pc' = "except"
            /\ UNCHANGED R_in_inv
       ELSE /\ inv_log' = Append(inv_log, "ok")
            /\ R_in_inv' = Inverse(R_in)
            /\ mv_pc' = "weights"
    /\ UNCHANGED <<mv_params, soi_power, snoi_power, R_in, weights, scan_i,
                   beampattern_db, beampattern_db_normalized, reg_count>>

\* mutant of ExceptRetry: a failed retry falls back to the identity
ExceptRetryFallback ==
    /\ UNCHANGED <<cre_vars, ee_vars, main_vars>>
    /\ mv_pc = "except"
    /\ R_in' = Regularize(R_in)
    /\ reg_count' = reg_count + 1
    /\ IF Singular(R_in')
       THEN /\ inv_log' = Append(inv_log, "LinAlgError")
            /\ R_in_inv' = [adj |-> ScaledEye(ROne, L), det |-> COne]
            /\ mv_pc' = "weights"
       ELSE /\ inv_log' = Append(inv_log, "ok")
            /\ R_in_inv' = Inverse(R_in')
            /\ mv_pc' = "weights"
    /\ UNCHANGED <<mv_params, soi_power, snoi_power, weights, scan_i, beampattern_db,
                   beampattern_db_normalized>>

\* lines 44-47; an error of line 47 leaves the function
ExceptRetry ==
    /\ UNCHANGED <<cre_vars, ee_vars, main_vars>>
    /\ mv_pc = "except"
    /\ R_in' = Regularize(R_in)
    /\ reg_count' = reg_count + 1
    /\ IF Singular(R_in')
       THEN /\ inv_log' = Append(inv_log, "LinAlgError")
            /\ mv_pc' = "LinAlgError"
            /\ UNCHANGED R_in_inv
       ELSE /\ inv_log' = Append(inv_log, "ok")
            /\ R_in_inv' = Inverse(R_in')
            /\ mv_pc' = "weights"
    /\ UNCHANGED <<mv_params, soi_power, snoi_power, weights, scan_i, beampattern_db,
                   beampattern_db_normalized>>

\* lines 32, 49-55
ComputeWeights ==
    /\ UNCHANGED <<cre_vars, ee_vars, main_vars>>
    /\ mv_pc = "weights"
    /\ weights' = MvdrWeights(R_in_inv, steering_vector(soi_angle_deg, L, d_ratio))
    /\ scan_i' = 1
    /\ beampattern_db' = <<>>
    /\ mv_pc' = "scan"
    /\ UNCHANGED <<mv_params, soi_power, snoi_power, R_in, R_in_inv,
                   beampattern_db_normalized, inv_log, reg_count>>

\* lines 57-61, one angle
ScanAngle ==
    /\ UNCHANGED <<cre_vars, ee_vars, main_vars>>
    /\ mv_pc = "scan"
    /\ scan_i <= Len(phi_scan_deg)
    /\ beampattern_db' = Append(beampattern_db,
                                ScanDb(weights, phi_scan_deg[scan_i], L, d_ratio))
    /\ scan_i' = scan_i + 1
    /\ UNCHANGED <<mv_pc, mv_params, soi_power, snoi_power, R_in, R_in_inv, weights,
                   beampattern_db_normalized, inv_log, reg_count>>

\* line 64, then the plot (lines 67-96)
Normalize ==
    /\ UNCHANGED <<cre_vars, ee_vars, main_vars>>
    /\ mv_pc = "scan"
    /\ scan_i > Len(phi_scan_deg)
    /\ beampattern_db_normalized' = NormalizeDb(beampattern_db)
    /\ mv_pc' = "plot"
    /\ UNCHANGED <<mv_params, soi_power, snoi_power, R_in, R_in_inv, weights, scan_i,
                   beampattern_db, inv_log, reg_count>>

(***************************************************************************)
(* Massive_MIMO.py: __main__                                               *)
(*                                                                         *)
(* A typed line is a sequence of characters.  float values are held in     *)
(* thousandths.                                                            *)
(***************************************************************************)
Digits == {"0", "1", "2", "3", "4", "5", "6", "7", "8", "9"}

DigitVal(c) ==
    CASE c = "0" -> 0 [] c = "1" -> 1 [] c = "2" -> 2 [] c = "3" -> 3 [] c = "4" -> 4
      [] c = "5" -> 5 [] c = "6" -> 6 [] c = "7" -> 7 [] c = "8" -> 8 [] c = "9" -> 9

RECURSIVE LStrip(_)
LStrip(s) == IF s # <<>> /\ Head(s) = " " THEN LStrip(Tail(s)) ELSE s

RECURSIVE RStrip(_)
RStrip(s) ==
    IF s # <<>> /\ s[Len(s)] = " " THEN RStrip(SubSeq(s, 1, Len(s) - 1)) ELSE s

\* str.strip
Strip(s) == RStrip(LStrip(s))

AllDigits(s) == \A i \in 1..Len(s) : s[i] \in Digits

RECURSIVE DigitsValue(_)
DigitsValue(s) ==
    IF s = <<>> THEN 0 ELSE 10 * DigitsValue(SubSeq(s, 1, Len(s) - 1)) + DigitVal(s[Len(s)])

ValueError == [ok |-> FALSE, val |-> 0]

Parsed(v) == [ok |-> TRUE, val |-> v]

Signed(s) == s # <<>> /\ Head(s) \in {"+", "-"}

Unsigned(s) == IF Signed(s) THEN Tail(s) ELSE s

SignOf(s) == IF s # <<>> /\ Head(s) = "-" THEN -1 ELSE 1

\* int(s)
ParseInt(s) ==
    LET t == Strip(s)
        body == Unsigned(t)
    IN  IF body # <<>> /\ AllDigits(body)
        THEN Parsed(SignOf(t) * DigitsValue(body))
        ELSE ValueError

\* the places of c in s
Places(s, c) == {i \in 1..Len(s) : s[i] = c}

\* the first three decimals of a digit string, as thousandths
Thousandths(frac) ==
    DigitsValue(SubSeq(frac \o <<"0", "0", "0">>, 1, 3))

\* float(s), for the decimal notation
ParseFloat(s) ==
    LET t == Strip(s)
        body == Unsigned(t)
        dots == Places(body, ".")
        dot == IF dots = {} THEN Len(body) + 1 ELSE CHOOSE i \in dots : TRUE
        whole == SubSeq(body, 1, dot - 1)
        frac == SubSeq(body, dot + 1, Len(body))
    IN  IF /\ Cardinality(dots) <= 1
           /\ AllDigits(whole) /\ AllDigits(frac)
           /\ whole \o frac # <<>>
        THEN Parsed(SignOf(t) * (1000 * DigitsValue(whole) + Thousandths(frac)))
        ELSE ValueError

\* s.split(',')
RECURSIVE Split(_)
Split(s) ==
    LET commas == Places(s, ",")
    IN  IF commas = {} THEN <<s>>
        ELSE LET c == CHOOSE i \in commas : \A j \in commas : i <= j
             IN  <<SubSeq(s, 1, c - 1)>> \o Split(SubSeq(s, c + 1, Len(s)))

\* line 120
ParseFloatList(s) ==
    LET parts == Split(s)
        vals == [i \in 1..Len(parts) |-> ParseFloat(Strip(parts[i]))]
    IN  IF \A i \in 1..Len(parts) : vals[i].ok
        THEN Parsed([i \in 1..Len(parts) |-> vals[i].val])
        ELSE ValueError

\* lines 100-105
default_L == 8
default_d_ratio == 500
default_soi_angle == 0
default_snoi_angles == <<-30000, -15000, 15000, 30000>>
default_snr_db == 10000
default_inr_db == 10000

Defaults == <<default_L, default_d_ratio, default_soi_angle, default_snoi_angles,
              default_snr_db, default_inr_db>>

ErrorMessage == "Bledna wartosc wejsciowa. Uzywam wartosci domyslnych."

\* lines a user may type
Texts == { <<>>, <<" ">>, <<"4">>, <<"1", ".", "5">>, <<"-", "3", "0">>, <<"x">>,
           <<"3", "0", ",", "9", "0">> }

MainStart ==
    /\ main_pc = "L"
    /\ typed = <<>>
    /\ L_elements = Unset
    /\ d_lambda_ratio = Unset
    /\ soi_direction = Unset
    /\ snoi_list = Unset
    /\ snr_db_val = Unset
    /\ inr_db_val = Unset
    /\ console = <<>>
    /\ call_args = Unset

MainIdle ==
    /\ main_pc = "idle"
    /\ typed = <<>>
    /\ L_elements = Unset
    /\ d_lambda_ratio = Unset
    /\ soi_direction = Unset
    /\ snoi_list = Unset
    /\ snr_db_val = Unset
    /\ inr_db_val = Unset
    /\ console = <<>>
    /\ call_args = Unset

\* `parse(text) if text.strip() else default`
ValueOf(text, parsed, default) == IF Strip(text) # <<>> THEN parsed ELSE Parsed(default)

\* lines 109-110
PromptL ==
    /\ UNCHANGED <<cre_vars, ee_vars, mv_vars>>
    /\ main_pc = "L"
    /\ \E user_L \in Texts :
          LET r == ValueOf(user_L, ParseInt(user_L), default_L)
          IN  /\ typed' = Append(typed, user_L)
              /\ IF r.ok THEN L_elements' = r.val /\ main_pc' = "d"
                 ELSE UNCHANGED L_elements /\ main_pc' = "except"
    /\ UNCHANGED <<d_lambda_ratio, soi_direction, snoi_list, snr_db_val, inr_db_val,
                   console, call_args>>

\* lines 112-113
PromptD ==
    /\ UNCHANGED <<cre_vars, ee_vars, mv_vars>>
    /\ main_pc = "d"
    /\ \E user_d \in Texts :
          LET r == ValueOf(user_d, ParseFloat(user_d), default_d_ratio)
          IN  /\ typed' = Append(typed, user_d)
              /\ IF r.ok THEN d_lambda_ratio' = r.val /\ main_pc' = "soi"
                 ELSE UNCHANGED d_lambda_ratio /\ main_pc' = "except"
    /\ UNCHANGED <<L_elements, soi_direction, snoi_list, snr_db_val, inr_db_val,
                   console, call_args>>

\* lines 115-116
PromptSoi ==
    /\ UNCHANGED <<cre_vars, ee_vars, mv_vars>>
    /\ main_pc = "soi"
    /\ \E user_soi \in Texts :
          LET r == ValueOf(user_soi, ParseFloat(user_soi), default_soi_angle)
          IN  /\ typed' = Append(typed, user_soi)
              /\ IF r.ok THEN soi_direction' = r.val /\ main_pc' = "snoi"
                 ELSE UNCHANGED soi_direction /\ main_pc' = "except"
    /\ UNCHANGED <<L_elements, d_lambda_ratio, snoi_list, snr_db_val, inr_db_val,
                   console, call_args>>

\* lines 118-122
PromptSnoi ==
    /\ UNCHANGED <<cre_vars, ee_vars, mv_vars>>
    /\ main_pc = "snoi"
    /\ \E user_snoi \in Texts :
          LET r == ValueOf(user_snoi, ParseFloatList(user_snoi), default_snoi_angles)
          IN  /\ typed' = Append(typed, user_snoi)
              /\ IF r.ok THEN snoi_list' = r.val /\ main_pc' = "snr"
                 ELSE UNCHANGED snoi_list /\ main_pc' = "except"
    /\ UNCHANGED <<L_elements, d_lambda_ratio, soi_direction, snr_db_val, inr_db_val,
                   console, call_args>>

\* lines 124-125
PromptSnr ==
    /\ UNCHANGED <<cre_vars, ee_vars, mv_vars>>
    /\ main_pc = "snr"
    /\ \E user_snr \in Texts :
          LET r == ValueOf(user_snr, ParseFloat(user_snr), default_snr_db)
          IN  /\ typed' = Append(typed, user_snr)
              /\ IF r.ok THEN snr_db_val' = r.val /\ main_pc' = "inr"
                 ELSE UNCHANGED snr_db_val /\ main_pc' = "except"
    /\ UNCHANGED <<L_elements, d_lambda_ratio, soi_direction, snoi_list, inr_db_val,
                   console, call_args>>

\* lines 127-128
PromptInr ==
    /\ UNCHANGED <<cre_vars, ee_vars, mv_vars>>
    /\ main_pc = "inr"
    /\ \E user_inr \in Texts :
          LET r == ValueOf(user_inr, ParseFloat(user_inr), default_inr_db)
          IN  /\ typed' = Append(typed, user_inr)
              /\ IF r.ok THEN inr_db_val' = r.val /\ main_pc' = "call"
                 ELSE UNCHANGED inr_db_val /\ main_pc' = "except"
    /\ UNCHANGED <<L_elements, d_lambda_ratio, soi_direction, snoi_list, snr_db_val,
                   console, call_args>>

\* mutant of HandleValueError: only what was not yet entered is defaulted
\* (the k-th value was entered when more than k lines were typed)
HandleValueErrorKeepEntered ==
    /\ UNCHANGED <<cre_vars, ee_vars, mv_vars>>
    /\ main_pc = "except"
    /\ console' = Append(console, ErrorMessage)
    /\ L_elements' = IF Len(typed) > 1 THEN L_elements ELSE default_L
    /\ d_lambda_ratio' = IF Len(typed) > 2 THEN d_lambda_ratio ELSE default_d_ratio
    /\ soi_direction' = IF Len(typed) > 3 THEN soi_direction ELSE default_soi_angle
    /\ snoi_list' = IF Len(typed) > 4 THEN snoi_list ELSE default_snoi_angles
    /\ snr_db_val' = IF Len(typed) > 5 THEN snr_db_val ELSE default_snr_db
    /\ inr_db_val' = IF Len(typed) > 6 THEN inr_db_val ELSE default_inr_db
    /\ main_pc' = "call"
    /\ UNCHANGED <<typed, call_args>>

\* lines 130-137
HandleValueError ==
    /\ UNCHANGED <<cre_vars, ee_vars, mv_vars>>
    /\ main_pc = "except"
    /\ console' = Append(console, ErrorMessage)
    /\ L_elements' = default_L
    /\ d_lambda_ratio' = default_d_ratio
    /\ soi_direction' = default_soi_angle
    /\ snoi_list' = default_snoi_angles
    /\ snr_db_val' = default_snr_db
    /\ inr_db_val' = default_inr_db
    /\ main_pc' = "call"
    /\ UNCHANGED <<typed, call_args>>

\* lines 139-146
CallPlot ==
    /\ UNCHANGED <<cre_vars, ee_vars, mv_vars>>
    /\ main_pc = "call"
    /\ call_args' = <<L_elements, d_lambda_ratio, soi_direction, snoi_list,
                      snr_db_val, inr_db_val>>
    /\ main_pc' = "done"
    /\ UNCHANGED <<typed, L_elements, d_lambda_ratio, soi_direction, snoi_list,
                   snr_db_val, inr_db_val, console>>

CREInit == CREStart /\ EEIdle /\ MVIdle /\ MainIdle

CRENext == AssignUser \/ CountAndSplit \/ ThroughputUser \/ Report

SpecCRE == CREInit /\ [][CRENext]_vars

EEInit == EEStart /\ CREIdle /\ MVIdle /\ MainIdle

EENext == CallTwoStations \/ CallOneStation \/ PrintResults

SpecEE == EEInit /\ [][EENext]_vars

MVInit == MVStart /\ CREIdle /\ EEIdle /\ MainIdle

MVNext == BuildCovariance \/ TryInverse \/ ExceptRetry \/ ComputeWeights
             \/ ScanAngle \/ Normalize

SpecMVDR == MVInit /\ [][MVNext]_vars

MainInit == MainStart /\ CREIdle /\ EEIdle /\ MVIdle

MainNext == PromptL \/ PromptD \/ PromptSoi \/ PromptSnoi \/ PromptSnr \/ PromptInr
               \/ HandleValueError \/ CallPlot

SpecMain == MainInit /\ [][MainNext]_vars


(***************************************************************************)
(* Properties of the CRE sweep                                             *)
(***************************************************************************)
Tie(x, CRE) == P_rx_micro(x) + CRE * 100 = P_rx_macro(x)

TiedUsers == {i \in 1..Len(assignment) : Tie(user_positions[i], CRE_values[cre_i])}

\* C4 as stated: a user whose biased micro reading equals the macro reading
\* is assigned to macro.
C4_TieGoesToMacro == \A i \in TiedUsers : assignment[i] = "macro"

\* C4 as amended: a user whose biased micro reading equals the macro reading
\* is assigned to micro (the comparison of line 76 is >=).
C4_TieGoesToMicro == \A i \in TiedUsers : assignment[i] = "micro"

C4_Witness == \E i \in TiedUsers : assignment[i] = "micro"

\* C5: a station with no assigned user gets per-user bandwidth 0 and the
\* split never divides by zero, whatever the assignment.
C5_ZeroUsersGuarded ==
    /\ cre_pc # "ZeroDivisionError"
    /\ n_micro = 0 => bw_micro_user = RatZero
    /\ n_macro = 0 => bw_macro_user = RatZero
    /\ n_micro > 0 => bw_micro_user = Rat(B_user_micro, n_micro)
    /\ n_macro > 0 => bw_macro_user = Rat(B_user_macro, n_macro)

C5_Witness ==
    /\ cre_pc = "throughput"
    /\ n_macro = 0
    /\ n_micro = n_users
    /\ bw_macro_user = RatZero

UsersOf(station) == {i \in 1..Len(allocated_bw) : assignment[i] = station}

RECURSIVE SeqOfSet(_)
SeqOfSet(S) ==
    IF S = {} THEN <<>>
    ELSE LET i == CHOOSE j \in S : TRUE IN <<allocated_bw[i]>> \o SeqOfSet(S \ {i})

EvenSplit(station, spectrum) ==
    /\ \A i, j \in UsersOf(station) : allocated_bw[i] = allocated_bw[j]
    /\ UsersOf(station) # {} => RatSum(SeqOfSet(UsersOf(station))) = Rat(spectrum, 1)

\* C6: once every user's throughput is computed, the users of a station all
\* hold the same bandwidth, and for a station with at least one user these
\* bandwidths sum to the station's spectrum.
C6_EvenSplit ==
    (cre_pc = "throughput" /\ user_i > n_users) =>
        /\ EvenSplit("micro", B_user_micro)
        /\ EvenSplit("macro", B_user_macro)
        /\ \A i \in 1..n_users :
              allocated_bw[i] = IF assignment[i] = "micro" THEN bw_micro_user
                                ELSE bw_macro_user

C6_Witness ==
    /\ cre_pc = "throughput"
    /\ user_i > n_users
    /\ Cardinality(UsersOf("micro")) = 2
    /\ Cardinality(UsersOf("macro")) = 1

\* C10: over the sweep the assignment is rebuilt from empty for every CRE
\* value, every user is on exactly one station, a user on micro under a
\* smaller CRE is on micro under every larger one, and so the printed micro
\* count never decreases and the printed macro count never increases.
C10_MonotoneInBias ==
    /\ (cre_pc = "assign" /\ user_i = 1) => assignment = <<>>
    /\ \A k \in 1..Len(assignment_log) :
          /\ Len(assignment_log[k]) = n_users
          /\ \A i \in 1..n_users : assignment_log[k][i] \in {"micro", "macro"}
    /\ \A k1, k2 \in 1..Len(assignment_log) :
          CRE_values[k1] <= CRE_values[k2] =>
             \A i \in 1..n_users :
                assignment_log[k1][i] = "micro" => assignment_log[k2][i] = "micro"
    /\ \A k \in 1..Len(printed) : printed[k].mikro + printed[k].makro = n_users
    /\ \A k1, k2 \in 1..Len(printed) :
          k1 <= k2 => /\ printed[k1].mikro <= printed[k2].mikro
                      /\ printed[k1].makro >= printed[k2].makro

C10_Witness ==
    /\ cre_pc = "plot"
    /\ \E i \in 1..n_users :
          /\ assignment_log[1][i] = "macro"
          /\ assignment_log[Len(CRE_values)][i] = "micro"
    /\ printed[1].mikro < printed[Len(CRE_values)].mikro

(***************************************************************************)
(* Properties of the energy-efficiency scenarios                           *)
(***************************************************************************)
\* C3: scenario_one_station reports Power2 = 100.0, the sleep power, and
\* TotalPower = Power1 + 100.0, whatever the SNRs and rates.
C3_SleepPower ==
    res_b # NoResult =>
        /\ res_b.Power2 = RatInt(100)
        /\ res_b.TotalPower = RatAdd(res_b.Power1, RatInt(100))

C3_Witness ==
    /\ ee_pc = "done"
    /\ res_b.Power2 = RatInt(100)
    /\ res_b.Power1 # res_a.Power2
    /\ \E i, j \in 1..num_users : rates[i] # rates[j]

InUnitInterval(r) == RatLeq(RatZero, r) /\ RatLeq(r, RatInt(1))

\* C9 as stated: rho1 and rho2 of scenario_two_stations and rho1 of
\* scenario_one_station lie in [0, 1] when every SNR is >= 0 dB and every
\* rate is > 0.
C9_OccupancyInUnitInterval ==
    /\ res_a # NoResult => InUnitInterval(res_a.rho1) /\ InUnitInterval(res_a.rho2)
    /\ res_b # NoResult => InUnitInterval(res_b.rho1)

(***************************************************************************)
(* Properties of plot_mvdr_beampattern                                     *)
(***************************************************************************)
\* C1: a first inversion that fails is followed by one regularization of
\* R_in and exactly one more inversion, whose failure leaves the function
\* as an error with no weights computed; a first inversion that succeeds is
\* followed by no regularization and no further inversion.
C1_RetryOnce ==
    /\ Len(inv_log) <= 2
    /\ reg_count <= 1
    /\ (inv_log # <<>> /\ inv_log[1] = "ok") => Len(inv_log) = 1 /\ reg_count = 0
    /\ reg_count = 1 <=> Len(inv_log) = 2
    /\ Len(inv_log) = 2 => inv_log[1] = "LinAlgError"
    /\ mv_pc = "except" <=> inv_log = <<"LinAlgError">>
    /\ mv_pc = "LinAlgError" <=> inv_log = <<"LinAlgError", "LinAlgError">>
    /\ mv_pc = "LinAlgError" => R_in_inv = Unset /\ weights = Unset
    /\ mv_pc \in {"weights", "scan", "plot"} => inv_log[Len(inv_log)] = "ok"
    /\ (inv_log # <<>> /\ inv_log[1] = "ok") =>
          R_in = Covariance(snoi_angles_deg, snoi_power, L, d_ratio)
    /\ reg_count = 1 =>
          R_in = MatAdd(Covariance(snoi_angles_deg, snoi_power, L, d_ratio),
                        ScaledEye(Epsilon, L))

C1_Witness ==
    /\ mv_pc = "LinAlgError"
    /\ inv_log = <<"LinAlgError", "LinAlgError">>
    /\ reg_count = 1

\* C7 as stated: when the first inversion finds R_in singular, the
\* regularized retry does not raise and a weight vector is computed.
C7_RetryYieldsWeights ==
    (inv_log # <<>> /\ inv_log[1] = "LinAlgError") => mv_pc # "LinAlgError"

SoiIndex == CHOOSE i \in 1..Len(phi_scan_deg) : phi_scan_deg[i] = soi_angle_deg

\* C8 as stated: the normalized beampattern is 0 dB at the SOI angle.
C8_SoiIsPeak ==
    mv_pc = "plot" => beampattern_db_normalized[SoiIndex] = 0

\* C8 as amended: before normalization the beampattern is 0 dB at the SOI
\* angle; after it the maximum over the scan is 0 dB and the value at the SOI
\* angle is at most 0 dB, and is 0 dB when there is no interferer.
C8_PeakIsZeroDb ==
    mv_pc = "plot" =>
        /\ beampattern_db[SoiIndex] = 0
        /\ MaxSeq(beampattern_db_normalized) = 0
        /\ \A i \in 1..Len(phi_scan_deg) : beampattern_db_normalized[i] <= 0
        /\ snoi_angles_deg = <<>> => beampattern_db_normalized[SoiIndex] = 0

C8_Witness ==
    /\ mv_pc = "plot"
    /\ snoi_angles_deg # <<>>
    /\ beampattern_db_normalized[SoiIndex] < 0

(***************************************************************************)
(* Properties of the prompt sequence                                       *)
(***************************************************************************)
\* whether the k-th typed line parses as the k-th prompt needs it
ParsesAt(k, text) ==
    \/ Strip(text) = <<>>
    \/ CASE k = 1 -> ParseInt(text).ok
         [] k = 4 -> ParseFloatList(text).ok
         [] OTHER -> ParseFloat(text).ok

PromptFailed == \E k \in 1..Len(typed) : ~ParsesAt(k, typed[k])

\* C2: when the line typed at any of the six prompts does not parse, the
\* six arguments of plot_mvdr_beampattern are the defaults, also those
\* entered and parsed at earlier prompts, and the message is printed.
C2_AllDefaultsOnParseFailure ==
    (main_pc = "done" /\ PromptFailed) =>
        /\ call_args = Defaults
        /\ console = <<ErrorMessage>>

C2_Witness ==
    /\ main_pc = "done"
    /\ Len(typed) = 6
    /\ typed[1] = <<"4">>
    /\ typed[4] = <<"3", "0", ",", "9", "0">>
    /\ PromptFailed
    /\ call_args = Defaults

=============================================================================
